---------------------------- MODULE Spec2Model ----------------------------
(***************************************************************************)
(* The 2048 grid engine of src/src/domain.rs: Board<N> with spawn,         *)
(* is_shiftable and shift (built on shift_nums_left).                      *)
(*                                                                         *)
(* Coordinates are 0-based as in the source: a line or a row is a function *)
(* on 0..n-1 and a board is a function from row index to row.              *)
(***************************************************************************)
EXTENDS Integers, Sequences, FiniteSets, TLC

(***************************************************************************)
(* Bounds of the model.  Board<N> is generic over N: every board of side   *)
(* 1..MaxN with cells of rank 0..MaxRank is explored, and for the sides up *)
(* to WideN the cells also range over the two largest u8 ranks.  The 4 x 4 *)
(* boards are those of the source's tests (TestBoards below).              *)
(***************************************************************************)
MaxN == 3
WideN == 2
MaxRank == 2

\* the game loop is followed for MaxMoves moves on the boards of side above WideN
MaxMoves == 2

\* the application is followed for MaxFrames frames on the board of side SIZE
MaxFrames == 2

\* u8::MAX, the largest rank a cell of [[u8; N]; N] can hold
U8Max == 255

Idx(n) == 0 .. (n - 1)

Directions == {"Up", "Down", "Left", "Right"}

\* struct Board<const N: usize>([[u8; N]; N])
Boards(n, ranks) == [Idx(n) -> [Idx(n) -> ranks]]

\* Board::empty
Empty(n) == [r \in Idx(n) |-> [c \in Idx(n) |-> 0]]

\* Board::get
Get(b, row, col) == b[row][col]

\* Board::set
Set(b, row, col, num) == [b EXCEPT ![row][col] = num]

\* the increment as u8::wrapping_add(1) would compute it
WrappingInc(x) == (x + 1) % (U8Max + 1)

\* u8::saturating_add(1)
SaturatingInc(x) == IF x + 1 > U8Max THEN U8Max ELSE x + 1

\* struct TileAction { kind, value, from, to }
TileAction(kind, value, from, to) ==
  [kind |-> kind, value |-> value, from |-> from, to |-> to]

(***************************************************************************)
(* Board::shift_nums_left: the loop `for j in 1..N` over the line `row`    *)
(* with the write cursor i, as a recursion on j.  The result is the line   *)
(* after the loop and the actions pushed.                                  *)
(***************************************************************************)
RECURSIVE ShiftLoop(_, _, _, _, _, _)
ShiftLoop(n, row, row_idx, i, j, actions) ==
  IF j >= n THEN [row |-> row, actions |-> actions]
  ELSE IF row[j] = 0 THEN ShiftLoop(n, row, row_idx, i, j + 1, actions)
  ELSE IF row[i] = 0 THEN
    ShiftLoop(n, [row EXCEPT ![i] = row[j], ![j] = 0], row_idx, i, j + 1,
              Append(actions,
                     TileAction("Move", row[j], <<row_idx, j>>, <<row_idx, i>>)))
  ELSE IF row[j] = row[i] THEN
    ShiftLoop(n, [row EXCEPT ![i] = SaturatingInc(row[i]), ![j] = 0],
              row_idx, i + 1, j + 1,
              Append(actions,
                     TileAction("Merge", SaturatingInc(row[i]),
                                <<row_idx, j>>, <<row_idx, i>>)))
  ELSE IF i + 1 # j THEN
    ShiftLoop(n, [row EXCEPT ![i + 1] = row[j], ![j] = 0], row_idx, i + 1, j + 1,
              Append(actions,
                     TileAction("Move", row[j], <<row_idx, j>>, <<row_idx, i + 1>>)))
  ELSE ShiftLoop(n, row, row_idx, i + 1, j + 1, actions)

(***************************************************************************)
(* Faulty variants of the loop, one slip each:                             *)
(*   "chain"     the merge branch does not advance the write cursor        *)
(*   "keep"      the merge branch does not clear the scanned cell          *)
(*   "stale"     the Merge action is pushed before the rank is incremented *)
(*   "noop"      the last branch pushes its Move also when i = j           *)
(*   "overwrite" the last branch does not advance the write cursor         *)
(*   "leave"     the last branch advances the cursor and moves nothing     *)
(*   "swapped"   the Merge action is pushed with `from` and `to` exchanged *)
(*   "nozero"    the test `*row[j] != 0` is missing                        *)
(***************************************************************************)
RECURSIVE VariantLoop(_, _, _, _, _, _, _)
VariantLoop(v, n, row, row_idx, i, j, actions) ==
  IF j >= n THEN [row |-> row, actions |-> actions]
  ELSE IF row[j] = 0 /\ v # "nozero"
    THEN VariantLoop(v, n, row, row_idx, i, j + 1, actions)
  ELSE IF row[i] = 0 THEN
    VariantLoop(v, n, [row EXCEPT ![i] = row[j], ![j] = 0], row_idx, i, j + 1,
                Append(actions,
                       TileAction("Move", row[j], <<row_idx, j>>, <<row_idx, i>>)))
  ELSE IF row[j] = row[i] THEN
    VariantLoop(v, n,
                [row EXCEPT ![i] = SaturatingInc(row[i]),
                            ![j] = IF v = "keep" THEN row[j] ELSE 0],
                row_idx, IF v = "chain" THEN i ELSE i + 1, j + 1,
                Append(actions,
                       TileAction("Merge",
                                  IF v = "stale" THEN row[i] ELSE SaturatingInc(row[i]),
                                  <<row_idx, IF v = "swapped" THEN i ELSE j>>,
                                  <<row_idx, IF v = "swapped" THEN j ELSE i>>)))
  ELSE IF v = "leave" THEN VariantLoop(v, n, row, row_idx, i + 1, j + 1, actions)
  ELSE IF v = "overwrite" THEN
    VariantLoop(v, n, [row EXCEPT ![i] = row[j], ![j] = 0], row_idx, i, j + 1,
                Append(actions,
                       TileAction("Move", row[j], <<row_idx, j>>, <<row_idx, i>>)))
  ELSE IF i + 1 # j \/ v = "noop" THEN
    VariantLoop(v, n, [row EXCEPT ![j] = 0, ![i + 1] = row[j]], row_idx, i + 1, j + 1,
                Append(actions,
                       TileAction("Move", row[j], <<row_idx, j>>, <<row_idx, i + 1>>)))
  ELSE VariantLoop(v, n, row, row_idx, i + 1, j + 1, actions)

shift_nums_left_chain(n, row, row_idx) == VariantLoop("chain", n, row, row_idx, 0, 1, <<>>)
shift_nums_left_keep(n, row, row_idx) == VariantLoop("keep", n, row, row_idx, 0, 1, <<>>)
shift_nums_left_stale(n, row, row_idx) == VariantLoop("stale", n, row, row_idx, 0, 1, <<>>)
shift_nums_left_noop(n, row, row_idx) == VariantLoop("noop", n, row, row_idx, 0, 1, <<>>)
shift_nums_left_overwrite(n, row, row_idx) ==
  VariantLoop("overwrite", n, row, row_idx, 0, 1, <<>>)

shift_nums_left_leave(n, row, row_idx) == VariantLoop("leave", n, row, row_idx, 0, 1, <<>>)
shift_nums_left_swapped(n, row, row_idx) ==
  VariantLoop("swapped", n, row, row_idx, 0, 1, <<>>)
shift_nums_left_nozero(n, row, row_idx) ==
  VariantLoop("nozero", n, row, row_idx, 0, 1, <<>>)

shift_nums_left(n, row, row_idx) == ShiftLoop(n, row, row_idx, 0, 1, <<>>)

(***************************************************************************)
(* Board::shift.  For each direction: the array of cell references handed  *)
(* to shift_nums_left (LineOf: position p of line k is board cell          *)
(* CellOf(n, d, k, p)), and the map applied to the coordinates of the      *)
(* actions it returns (MapCoord).                                          *)
(***************************************************************************)
CellOf(n, d, k, p) ==
  CASE d = "Left"  -> <<k, p>>
    [] d = "Right" -> <<k, n - 1 - p>>
    [] d = "Up"    -> <<p, k>>
    [] d = "Down"  -> <<n - 1 - p, k>>

LineOf(n, b, d, k) ==
  [p \in Idx(n) |-> b[CellOf(n, d, k, p)[1]][CellOf(n, d, k, p)[2]]]

\* the coordinate map with Down's row index not mirrored
MapCoordDownAsUp(n, d, xy) ==
  CASE d = "Left"  -> xy
    [] d = "Right" -> <<xy[1], n - 1 - xy[2]>>
    [] d = "Up"    -> <<xy[2], xy[1]>>
    [] d = "Down"  -> <<xy[2], xy[1]>>

\* the coordinate map with Right's column index not mirrored
MapCoordRightAsLeft(n, d, xy) ==
  CASE d = "Left"  -> xy
    [] d = "Right" -> xy
    [] d = "Up"    -> <<xy[2], xy[1]>>
    [] d = "Down"  -> <<n - 1 - xy[2], xy[1]>>

MapCoord(n, d, xy) ==
  CASE d = "Left"  -> xy
    [] d = "Right" -> <<xy[1], n - 1 - xy[2]>>
    [] d = "Up"    -> <<xy[2], xy[1]>>
    [] d = "Down"  -> <<n - 1 - xy[2], xy[1]>>

MapActions(n, d, as) ==
  [x \in 1 .. Len(as) |->
     [as[x] EXCEPT !.from = MapCoord(n, d, as[x].from),
                   !.to = MapCoord(n, d, as[x].to)]]

\* the line index and the position in that line of board cell (r, c)
LineIdx(d, r, c) == IF d \in {"Left", "Right"} THEN r ELSE c
LinePos(n, d, r, c) ==
  CASE d = "Left"  -> c
    [] d = "Right" -> n - 1 - c
    [] d = "Up"    -> r
    [] d = "Down"  -> n - 1 - r

\* the results of shift_nums_left for the lines k, k + 1, .., n - 1, in that order
RECURSIVE LineResults(_, _, _, _)
LineResults(n, b, d, k) ==
  IF k >= n THEN <<>>
  ELSE <<shift_nums_left(n, LineOf(n, b, d, k), k)>> \o LineResults(n, b, d, k + 1)

\* the mapped actions of the lines collected last line first
RECURSIVE FlatMapRev(_, _, _, _)
FlatMapRev(n, d, res, k) ==
  IF k > n THEN <<>>
  ELSE FlatMapRev(n, d, res, k + 1) \o MapActions(n, d, res[k].actions)

\* flat_map(..).collect(): the mapped actions of the lines, line after line
RECURSIVE FlatMap(_, _, _, _)
FlatMap(n, d, res, k) ==
  IF k > n THEN <<>>
  ELSE MapActions(n, d, res[k].actions) \o FlatMap(n, d, res, k + 1)

ShiftBoard(n, b, d) ==
  LET res == LineResults(n, b, d, 0)
  IN [board |-> [r \in Idx(n) |-> [c \in Idx(n) |->
                   res[LineIdx(d, r, c) + 1].row[LinePos(n, d, r, c)]]],
      actions |-> FlatMap(n, d, res, 1)]

(***************************************************************************)
(* Board::is_shiftable                                                     *)
(***************************************************************************)
\* is_shiftable with the loop `for j in 0..N - 1`: the last row and column unscanned
is_shiftable_short(n, b) ==
  \/ b[0][0] = 0
  \/ \E i \in 0 .. (n - 2), j \in 0 .. (n - 2) :
       \/ b[i + 1][j] = 0 \/ b[i][j] = b[i + 1][j]
       \/ b[j][i + 1] = 0 \/ b[j][i] = b[j][i + 1]

\* is_shiftable comparing each cell with the cell below in both tests
is_shiftable_down_only(n, b) ==
  \/ b[0][0] = 0
  \/ \E i \in 0 .. (n - 2), j \in Idx(n) :
       \/ b[i + 1][j] = 0 \/ b[i][j] = b[i + 1][j]
       \/ b[j][i + 1] = 0

\* is_shiftable with `it <= down` and `it <= right` for the equality tests
is_shiftable_le(n, b) ==
  \/ b[0][0] = 0
  \/ \E i \in 0 .. (n - 2), j \in Idx(n) :
       \/ b[i + 1][j] = 0 \/ b[i][j] <= b[i + 1][j]
       \/ b[j][i + 1] = 0 \/ b[j][i] <= b[j][i + 1]

\* is_shiftable without the test of the top-left cell
is_shiftable_no_corner(n, b) ==
  \E i \in 0 .. (n - 2), j \in Idx(n) :
    \/ b[i + 1][j] = 0 \/ b[i][j] = b[i + 1][j]
    \/ b[j][i + 1] = 0 \/ b[j][i] = b[j][i + 1]

is_shiftable(n, b) ==
  \/ b[0][0] = 0
  \/ \E i \in 0 .. (n - 2), j \in Idx(n) :
       \/ b[i + 1][j] = 0 \/ b[i][j] = b[i + 1][j]
       \/ b[j][i + 1] = 0 \/ b[j][i] = b[j][i + 1]

(***************************************************************************)
(* Board::spawn: the flat indices of the empty cells, of which one is      *)
(* chosen, and the rank drawn (1 with chance 90 %, else 2).                *)
(***************************************************************************)
\* iter_numbers().enumerate(): the number at flat index x
NumberAt(n, b, x) == b[x \div n][x % n]

\* the empty cells with the last flat index left out
EmptyIdxShort(n, b) == {x \in 0 .. (n * n - 2) : NumberAt(n, b, x) = 0}

EmptyIdx(n, b) == {x \in 0 .. (n * n - 1) : NumberAt(n, b, x) = 0}

\* the coordinates with row and column exchanged
SpawnCoordSwapped(n, idx) == <<idx % n, idx \div n>>

\* .map(|idx| (idx / N, idx % N))
SpawnCoord(n, idx) == <<idx \div n, idx % n>>

SpawnRanks == {1, 2}

None == [some |-> FALSE]
Some(v) == [some |-> TRUE, val |-> v]

\* the boards spawn() can leave of board b: b itself when it returns None
SpawnResults(n, b) ==
  IF EmptyIdx(n, b) = {} THEN {b}
  ELSE {Set(b, SpawnCoord(n, idx)[1], SpawnCoord(n, idx)[2], num) :
          idx \in EmptyIdx(n, b), num \in SpawnRanks}

\* new() with its second spawn left out
NewBoardsOnce(n) == SpawnResults(n, Empty(n))

\* Board::new: empty(), then spawn() twice
NewBoards(n) == UNION {SpawnResults(n, b) : b \in SpawnResults(n, Empty(n))}

(***************************************************************************)
(* The 4 x 4 boards that the tests of domain.rs build: Board([[..]; 4]).   *)
(***************************************************************************)
SIZE == 4

FromRows(rows) ==
  [r \in Idx(Len(rows)) |-> [c \in Idx(Len(rows)) |-> rows[r + 1][c + 1]]]

\* tests::is_shiftable: the boards asserted shiftable, then the one asserted not
ShiftableTestBoards ==
  { Empty(SIZE),
    FromRows(<<<<0, 2, 3, 4>>, <<5, 6, 7, 8>>, <<9, 10, 11, 12>>, <<13, 14, 15, 16>>>>),
    FromRows(<<<<1, 2, 3, 4>>, <<5, 6, 0, 8>>, <<9, 10, 11, 12>>, <<13, 14, 15, 16>>>>),
    FromRows(<<<<1, 2, 3, 4>>, <<5, 6, 7, 8>>, <<9, 10, 11, 12>>, <<13, 14, 15, 0>>>>),
    FromRows(<<<<1, 1, 3, 4>>, <<5, 6, 7, 8>>, <<9, 10, 11, 12>>, <<13, 14, 15, 16>>>>),
    FromRows(<<<<1, 2, 3, 4>>, <<1, 6, 7, 8>>, <<9, 10, 11, 12>>, <<13, 14, 15, 16>>>>),
    FromRows(<<<<1, 2, 3, 4>>, <<5, 6, 7, 7>>, <<9, 10, 11, 12>>, <<13, 14, 15, 16>>>>),
    FromRows(<<<<1, 2, 3, 4>>, <<5, 6, 7, 8>>, <<9, 10, 7, 12>>, <<13, 14, 15, 16>>>>),
    FromRows(<<<<1, 2, 3, 4>>, <<5, 6, 7, 8>>, <<9, 10, 11, 12>>, <<13, 14, 15, 15>>>>),
    FromRows(<<<<1, 2, 3, 4>>, <<5, 6, 7, 8>>, <<9, 10, 11, 12>>, <<13, 14, 15, 12>>>>) }

UnshiftableTestBoard ==
  FromRows(<<<<1, 2, 3, 4>>, <<5, 6, 7, 8>>, <<9, 10, 11, 12>>, <<13, 14, 15, 16>>>>)

\* tests::shift: the `before` boards of the Left, Right, Up and Down cases
ShiftTestLeft ==
  FromRows(<<<<1, 0, 0, 2>>, <<1, 0, 1, 2>>, <<1, 0, 2, 2>>, <<1, 1, 2, 2>>>>)
ShiftTestRight ==
  FromRows(<<<<2, 0, 0, 1>>, <<2, 1, 0, 1>>, <<2, 2, 0, 1>>, <<2, 2, 1, 1>>>>)
ShiftTestUp ==
  FromRows(<<<<1, 1, 1, 1>>, <<0, 0, 0, 1>>, <<0, 1, 2, 2>>, <<2, 2, 2, 2>>>>)
ShiftTestDown ==
  FromRows(<<<<2, 2, 2, 2>>, <<0, 1, 2, 2>>, <<0, 0, 0, 1>>, <<1, 1, 1, 1>>>>)

\* tests::moved, tests::merged
moved(value, from, to) == TileAction("Move", value, from, to)
merged(value, from, to) == TileAction("Merge", value, from, to)

\* tests::shift: the action lists expected of the four cases
ShiftTestLeftActions ==
  << moved(2, <<0, 3>>, <<0, 1>>), merged(2, <<1, 2>>, <<1, 0>>),
     moved(2, <<1, 3>>, <<1, 1>>), moved(2, <<2, 2>>, <<2, 1>>),
     merged(3, <<2, 3>>, <<2, 1>>), merged(2, <<3, 1>>, <<3, 0>>),
     moved(2, <<3, 2>>, <<3, 1>>), merged(3, <<3, 3>>, <<3, 1>>) >>
ShiftTestRightActions ==
  << moved(2, <<0, 0>>, <<0, 2>>), merged(2, <<1, 1>>, <<1, 3>>),
     moved(2, <<1, 0>>, <<1, 2>>), moved(2, <<2, 1>>, <<2, 2>>),
     merged(3, <<2, 0>>, <<2, 2>>), merged(2, <<3, 2>>, <<3, 3>>),
     moved(2, <<3, 1>>, <<3, 2>>), merged(3, <<3, 0>>, <<3, 2>>) >>
ShiftTestUpActions ==
  << moved(2, <<3, 0>>, <<1, 0>>), merged(2, <<2, 1>>, <<0, 1>>),
     moved(2, <<3, 1>>, <<1, 1>>), moved(2, <<2, 2>>, <<1, 2>>),
     merged(3, <<3, 2>>, <<1, 2>>), merged(2, <<1, 3>>, <<0, 3>>),
     moved(2, <<2, 3>>, <<1, 3>>), merged(3, <<3, 3>>, <<1, 3>>) >>
ShiftTestDownActions ==
  << moved(2, <<0, 0>>, <<2, 0>>), merged(2, <<1, 1>>, <<3, 1>>),
     moved(2, <<0, 1>>, <<2, 1>>), moved(2, <<1, 2>>, <<2, 2>>),
     merged(3, <<0, 2>>, <<2, 2>>), merged(2, <<2, 3>>, <<3, 3>>),
     moved(2, <<1, 3>>, <<2, 3>>), merged(3, <<0, 3>>, <<2, 3>>) >>

\* tests::shift: (before, dir, actions) of the four cases
ShiftTests ==
  { <<ShiftTestLeft, "Left", ShiftTestLeftActions>>,
    <<ShiftTestRight, "Right", ShiftTestRightActions>>,
    <<ShiftTestUp, "Up", ShiftTestUpActions>>,
    <<ShiftTestDown, "Down", ShiftTestDownActions>> }

TestBoards ==
  ShiftableTestBoards
    \cup {UnshiftableTestBoard, ShiftTestLeft, ShiftTestRight, ShiftTestUp, ShiftTestDown}

(***************************************************************************)
(* State: one Board<N>, and for the last call made on it the board before  *)
(* the call, the call and its argument, and what it returned.  budget is   *)
(* the number of calls the exploration still makes on the board.           *)
(***************************************************************************)
VARIABLES n, board, prev, op, dir, actions, spawned, budget,
          state, next_state, animated, key

(***************************************************************************)
(* The state of the application around the board (src/src/lib.rs and       *)
(* src/src/board.rs): state is State<AppState>, next_state the pending     *)
(* NextState<AppState>, animated the cells whose Tile entity carries an    *)
(* Animation component, key the key ButtonInput<KeyCode> reports in the    *)
(* current frame.                                                          *)
(***************************************************************************)
appvars == <<state, next_state, animated, key>>

vars == <<n, board, prev, op, dir, actions, spawned, budget,
          state, next_state, animated, key>>

\* the engine called directly: no application runs around the board
NoApp ==
  /\ state = "Playing"
  /\ next_state = "Unchanged"
  /\ animated = {}
  /\ key = "None"

\* the budget of a board that is followed through every sequence of calls
Unlimited == 0 - 1

Spend(b) == IF b = Unlimited THEN b ELSE b - 1

(***************************************************************************)
(* Boards of side up to WideN are followed through every sequence of       *)
(* calls, the larger ones through the first call on the board drawn.       *)
(***************************************************************************)
CallBudget(m) == IF m <= WideN THEN Unlimited ELSE 1

InitRanks(m) ==
  IF m <= WideN THEN (0 .. MaxRank) \cup {U8Max - 1, U8Max} ELSE 0 .. MaxRank

Init ==
  /\ \/ /\ n \in 1 .. MaxN
        /\ board \in Boards(n, InitRanks(n))
     \/ /\ n = SIZE
        /\ board \in TestBoards
  /\ prev = board
  /\ op = "init"
  /\ dir = "Left"
  /\ actions = <<>>
  /\ spawned = None
  /\ budget = CallBudget(n)
  /\ NoApp

CanCall == budget # 0

\* board.shift(d)
Shift(d) ==
  /\ CanCall
  /\ LET res == ShiftBoard(n, board, d)
     IN /\ board' = res.board
        /\ actions' = res.actions
  /\ prev' = board
  /\ op' = "shift"
  /\ dir' = d
  /\ budget' = Spend(budget)
  /\ UNCHANGED <<n, spawned>>
  /\ UNCHANGED appvars

\* board.spawn() with an empty cell left: Some((num, (row, col)))
SpawnSome ==
  /\ CanCall
  /\ \E idx \in EmptyIdx(n, board), num \in SpawnRanks :
       LET rc == SpawnCoord(n, idx)
       IN /\ board' = Set(board, rc[1], rc[2], num)
          /\ spawned' = Some(<<num, rc>>)
  /\ prev' = board
  /\ op' = "spawn"
  /\ budget' = Spend(budget)
  /\ UNCHANGED <<n, dir, actions>>
  /\ UNCHANGED appvars

\* board.spawn() on a full board: `coords?` returns None
SpawnNone ==
  /\ CanCall
  /\ EmptyIdx(n, board) = {}
  /\ spawned' = None
  /\ prev' = board
  /\ op' = "spawn"
  /\ budget' = Spend(budget)
  /\ UNCHANGED <<n, board, dir, actions>>
  /\ UNCHANGED appvars

Next ==
  \/ \E d \in Directions : Shift(d)
  \/ SpawnSome
  \/ SpawnNone

Spec == Init /\ [][Next]_vars

(***************************************************************************)
(* tests::add_number: Board::empty(), then spawn() called N * N + 1 times. *)
(***************************************************************************)
FillCalls(m) == m * m + 1

InitFill ==
  /\ n \in 1 .. MaxN
  /\ board = Empty(n)
  /\ prev = board
  /\ op = "init"
  /\ dir = "Left"
  /\ actions = <<>>
  /\ spawned = None
  /\ budget = FillCalls(n)
  /\ NoApp

NextFill ==
  \/ SpawnSome
  \/ SpawnNone

SpecFill == InitFill /\ [][NextFill]_vars

(***************************************************************************)
(* The game loop of src/src/board.rs: restart puts Board::new() in         *)
(* BoardRes, and shift_board handles one BoardShifted(d) event: it shifts  *)
(* the board and, when actions were returned, spawns a tile.  op is        *)
(* "shift" after a call that returned before the spawn, "move" after one   *)
(* that went on to it.                                                     *)
(***************************************************************************)
GameBudget(m) ==
  IF m <= WideN THEN Unlimited ELSE IF m <= MaxN THEN MaxMoves ELSE 1

\* restart: board_res.0 = Board::<SIZE>::new()
InitGame ==
  /\ n \in (2 .. MaxN) \cup {SIZE}
  /\ board \in NewBoards(n)
  /\ prev = Empty(n)
  /\ op = "new"
  /\ dir = "Left"
  /\ actions = <<>>
  /\ spawned = None
  /\ budget = GameBudget(n)
  /\ NoApp

\* shift_board calling spawn whether or not the shift returned actions
shift_board_always(d) ==
  /\ CanCall
  /\ LET res == ShiftBoard(n, board, d)
     IN /\ actions' = res.actions
        /\ op' = "move"
        /\ IF EmptyIdx(n, res.board) = {}
             THEN board' = res.board /\ spawned' = None
             ELSE \E idx \in EmptyIdx(n, res.board), num \in SpawnRanks :
                    LET rc == SpawnCoord(n, idx)
                    IN /\ board' = Set(res.board, rc[1], rc[2], num)
                       /\ spawned' = Some(<<num, rc>>)
  /\ prev' = board
  /\ dir' = d
  /\ budget' = Spend(budget)
  /\ UNCHANGED n
  /\ UNCHANGED appvars

shift_board(d) ==
  /\ CanCall
  /\ LET res == ShiftBoard(n, board, d)
     IN /\ actions' = res.actions
        /\ IF res.actions = <<>>
             THEN /\ board' = res.board
                  /\ op' = "shift"
                  /\ UNCHANGED spawned
             ELSE /\ op' = "move"
                  /\ IF EmptyIdx(n, res.board) = {}
                       THEN board' = res.board /\ spawned' = None
                       ELSE \E idx \in EmptyIdx(n, res.board), num \in SpawnRanks :
                              LET rc == SpawnCoord(n, idx)
                              IN /\ board' = Set(res.board, rc[1], rc[2], num)
                                 /\ spawned' = Some(<<num, rc>>)
  /\ prev' = board
  /\ dir' = d
  /\ budget' = Spend(budget)
  /\ UNCHANGED n
  /\ UNCHANGED appvars

NextGame == \E d \in Directions : shift_board(d)

SpecGame == InitGame /\ [][NextGame]_vars

(***************************************************************************)
(* direction_from_position of src/src/board.rs; "unreachable" stands for   *)
(* the panic of its unreachable!() branch.                                 *)
(***************************************************************************)
direction_from_position(from, to) ==
  IF to[1] > from[1] THEN "Down"
  ELSE IF to[1] < from[1] THEN "Up"
  ELSE IF to[2] > from[2] THEN "Right"
  ELSE IF to[2] < from[2] THEN "Left"
  ELSE "unreachable"

(***************************************************************************)
(* The application of src/src/lib.rs and src/src/board.rs, one frame of    *)
(* the Main schedule per step.  A frame reads the keyboard, applies the    *)
(* pending state transition (OnEnter(Playing) runs restart), and runs the  *)
(* Update systems in the order BoardPlugin::build gives them:              *)
(*   (handle_input, shift_board, assign_animations)  if player_can_interact*)
(*   animate_tiles                                   if animating          *)
(*   (redraw_board, check_game_over)                 if player_can_interact*)
(* with handle_restart running in GameOver.  The commands of a system      *)
(* (restart queued by handle_input, the Animation components inserted by   *)
(* assign_animations) are applied before the next system ordered after it. *)
(* The keyboard reports at most one key per frame: none, KeyR, a key bound *)
(* to a direction (named by the direction), or some other key.             *)
(***************************************************************************)
Keys == {"None", "KeyR", "Other"} \cup Directions

\* enum AppState
AppStates == {"Playing", "GameOver"}

\* fn animating: !animated_tiles.is_empty()
animating(anim) == anim # {}

\* player_can_interact without the test of animating
player_can_interact_ungated(st, anim) == st = "Playing"

\* in_state(AppState::Playing).and(not(animating))
player_can_interact(st, anim) == st = "Playing" /\ ~animating(anim)

\* check_game_over: whether it sets next_state to GameOver
check_game_over(m, b) == ~is_shiftable(m, b)

\* handle_restart: whether it sets next_state to Playing
handle_restart(k) == k # "None"

\* what a frame leaves when neither restart nor shift_board touches the board
Idle(b) == [board |-> b, actions |-> <<>>, spawned |-> None, op |-> "idle"]

\* restart: board_res.0 = Board::<SIZE>::new()
Restarted(b) == [board |-> b, actions |-> <<>>, spawned |-> None, op |-> "new"]

\* shift_board on the event BoardShifted(d): the outcomes of shift and spawn
ShiftBoardEvent(m, b, d) ==
  LET res == ShiftBoard(m, b, d)
  IN IF res.actions = <<>>
       THEN {[board |-> res.board, actions |-> <<>>, spawned |-> None,
              op |-> "shift"]}
       ELSE IF EmptyIdx(m, res.board) = {}
              THEN {[board |-> res.board, actions |-> res.actions,
                     spawned |-> None, op |-> "move"]}
              ELSE {[board |-> Set(res.board, SpawnCoord(m, idx)[1],
                                   SpawnCoord(m, idx)[2], num),
                     actions |-> res.actions,
                     spawned |-> Some(<<num, SpawnCoord(m, idx)>>),
                     op |-> "move"] :
                      idx \in EmptyIdx(m, res.board), num \in SpawnRanks}

\* assign_animations: a Moved or Merged event puts an Animation on the tile
\* at its `from`; Spawned puts none
assign_animations(acts) == {acts[x].from : x \in 1 .. Len(acts)}

(***************************************************************************)
(* Games of side up to MaxN are followed through every sequence of frames, *)
(* the game of side SIZE through its first MaxFrames frames.               *)
(***************************************************************************)
FrameBudget(m) == IF m <= MaxN THEN Unlimited ELSE MaxFrames

\* setup and OnEnter(Playing) at startup: restart, in the default state
InitApp ==
  /\ n \in (1 .. MaxN) \cup {SIZE}
  /\ board \in NewBoards(n)
  /\ prev = board
  /\ op = "new"
  /\ dir = "Left"
  /\ actions = <<>>
  /\ spawned = None
  /\ budget = FrameBudget(n)
  /\ state = "Playing"
  /\ next_state = "Unchanged"
  /\ animated = {}
  /\ key = "None"

(***************************************************************************)
(* One frame with key k.  st is the state after StateTransition, entered   *)
(* whether OnEnter(Playing) ran restart; b0 and anim0 are the board and    *)
(* the animated tiles the Update schedule starts with, b1 the board after  *)
(* handle_input (KeyR runs restart, which despawns the grid and its        *)
(* tiles), out what shift_board leaves, anim1 the animated tiles after     *)
(* assign_animations.  animate_tiles changes Transform only and removes no *)
(* Animation; redraw_board replaces the tiles only when none is animated.  *)
(* prev is the board the frame's Update started with after any restart.    *)
(***************************************************************************)
Frame(k) ==
  LET st == IF next_state = "Unchanged" THEN state ELSE next_state
      entered == st = "Playing" /\ state # "Playing"
      anim0 == IF entered THEN {} ELSE animated
      gate == player_can_interact(st, anim0)
      reset == gate /\ k = "KeyR"
  IN /\ CanCall
     /\ key' = k
     /\ \E b0 \in (IF entered THEN NewBoards(n) ELSE {board}) :
        \E b1 \in (IF reset THEN NewBoards(n) ELSE {b0}) :
        \E out \in (IF gate /\ k \in Directions THEN ShiftBoardEvent(n, b1, k)
                    ELSE IF entered \/ reset THEN {Restarted(b1)}
                    ELSE {Idle(b1)}) :
          LET anim1 == IF gate THEN assign_animations(out.actions) ELSE anim0
              late == player_can_interact(st, anim1)
          IN /\ state' = st
             /\ board' = out.board
             /\ prev' = b1
             /\ op' = out.op
             /\ actions' = out.actions
             /\ spawned' = out.spawned
             /\ dir' = IF gate /\ k \in Directions THEN k ELSE dir
             /\ animated' = anim1
             /\ next_state' =
                  IF late /\ check_game_over(n, out.board) THEN "GameOver"
                  ELSE IF st = "GameOver" /\ handle_restart(k) THEN "Playing"
                  ELSE "Unchanged"
             /\ budget' = Spend(budget)
             /\ UNCHANGED n

NextApp == \E k \in Keys : Frame(k)

SpecApp == InitApp /\ [][NextApp]_vars

(***************************************************************************)
(* The event loop keeps running the Main schedule (WinitSettings::         *)
(* desktop_app() updates on every window event and on a timeout), so a     *)
(* frame that can run eventually does.  Followed on the games of side up   *)
(* to WideN.                                                               *)
(***************************************************************************)
InitAppFair == InitApp /\ n <= WideN

SpecAppFair == InitAppFair /\ [][NextApp]_vars /\ WF_vars(NextApp)

(***************************************************************************)
(* Vocabulary of the properties.                                           *)
(***************************************************************************)
Cells(m) == Idx(m) \X Idx(m)

At(b, xy) == Get(b, xy[1], xy[2])

Tiles(m, b) == {xy \in Cells(m) : At(b, xy) # 0}

Merges(as) == {x \in 1 .. Len(as) : as[x].kind = "Merge"}

\* pairs of horizontally or vertically adjacent cells
AdjacentPairs(m) ==
  {pq \in Cells(m) \X Cells(m) :
     \/ pq[1][1] = pq[2][1] /\ pq[2][2] = pq[1][2] + 1
     \/ pq[1][2] = pq[2][2] /\ pq[2][1] = pq[1][1] + 1}

\* the non-zero ranks of a line from position p on, in their order
RECURSIVE Pack(_, _, _)
Pack(m, line, p) ==
  IF p >= m THEN <<>>
  ELSE IF line[p] = 0 THEN Pack(m, line, p + 1)
  ELSE <<line[p]>> \o Pack(m, line, p + 1)

\* scanning from the front, each two consecutive equal ranks become one rank
\* higher, no higher than cap
RECURSIVE MergePairs(_, _)
MergePairs(s, cap) ==
  IF Len(s) < 2 THEN s
  ELSE IF s[1] = s[2]
    THEN <<IF s[1] + 1 > cap THEN cap ELSE s[1] + 1>> \o MergePairs(Tail(Tail(s)), cap)
  ELSE <<s[1]>> \o MergePairs(Tail(s), cap)

PadLine(m, s) == [p \in Idx(m) |-> IF p < Len(s) THEN s[p + 1] ELSE 0]

\* the reference 2048 result of a line
Reference(m, line, cap) == PadLine(m, MergePairs(Pack(m, line, 0), cap))

AfterShift == op = "shift"
AfterSpawn == op = "spawn"

\* the rank of the tile that Merge number x of the last shift joined: the tile
\* an earlier action of the shift brought to its `to` cell, else the tile there
\* before the shift
Joined(x) ==
  LET earlier == {y \in 1 .. (x - 1) : actions[y].to = actions[x].to}
  IN IF earlier = {} THEN At(prev, actions[x].to)
     ELSE actions[CHOOSE y \in earlier : \A z \in earlier : z <= y].value

(***************************************************************************)
(* C1 (as stated): after shift(dir) every line of the board, read from the *)
(* edge dir points to, is the reference result of the same line before the *)
(* shift: non-zero ranks packed in order, each two consecutive equal ranks *)
(* replaced by one tile of rank + 1, the rest 0.                           *)
(***************************************************************************)
C1_ReferenceExact ==
  AfterShift =>
    \A k \in Idx(n) :
      LineOf(n, board, dir, k) = Reference(n, LineOf(n, prev, dir, k), U8Max + 1)

(***************************************************************************)
(* C1 (amended): as above, with the rank of a merged tile being rank + 1   *)
(* capped at 255, the largest u8.                                          *)
(***************************************************************************)
C1_ReferenceSaturating ==
  AfterShift =>
    \A k \in Idx(n) :
      LineOf(n, board, dir, k) = Reference(n, LineOf(n, prev, dir, k), U8Max)

\* a shift that moved and merged tiles on a line of four
C1_Witness ==
  /\ AfterShift
  /\ n = SIZE
  /\ \E k \in Idx(n) :
       /\ LineOf(n, prev, dir, k) = PadLine(n, <<1, 0, 1, 2>>)
       /\ LineOf(n, board, dir, k) = PadLine(n, <<2, 2, 0, 0>>)

(***************************************************************************)
(* C2: in one shift no cell is the `to` of two Merge actions, no later     *)
(* action starts from the `to` cell of a Merge, and the tile a Merge makes *)
(* is still at its `to` cell with the Merge's value when the shift         *)
(* returns; so a line 1,1,1,1 becomes 2,2,0,0.                             *)
(***************************************************************************)
C2_MergeOncePerTile ==
  AfterShift =>
    /\ \A x \in Merges(actions) :
         /\ \A y \in Merges(actions) : actions[x].to = actions[y].to => x = y
         /\ \A y \in (x + 1) .. Len(actions) : actions[y].from # actions[x].to
         /\ At(board, actions[x].to) = actions[x].value
    /\ \A k \in Idx(n) :
         (\A p \in Idx(n) : LineOf(n, prev, dir, k)[p] = 1 /\ n = 4) =>
           LineOf(n, board, dir, k) = PadLine(n, <<2, 2, 0, 0>>)

C2_Witness ==
  /\ AfterShift
  /\ \E k \in Idx(n) :
       /\ LineOf(n, prev, dir, k) = PadLine(n, <<1, 1, 1, 1>>)
       /\ LineOf(n, board, dir, k) = PadLine(n, <<2, 2, 0, 0>>)
  /\ Cardinality(Merges(actions)) >= 2

(***************************************************************************)
(* C3: the number of non-zero cells after a shift is at most the number    *)
(* before, and is the number before less the number of Merge actions.      *)
(***************************************************************************)
C3_TileCount ==
  AfterShift =>
    /\ Cardinality(Tiles(n, board)) <= Cardinality(Tiles(n, prev))
    /\ Cardinality(Tiles(n, board)) =
         Cardinality(Tiles(n, prev)) - Cardinality(Merges(actions))

C3_Witness ==
  /\ AfterShift
  /\ Cardinality(Merges(actions)) >= 2
  /\ Cardinality(Tiles(n, board)) + 2 <= Cardinality(Tiles(n, prev))

(***************************************************************************)
(* C4 (as stated): every Merge action's value is exactly one more than the *)
(* rank at its `from` cell before the shift, and the tile it joins has     *)
(* that same non-zero rank.                                                *)
(***************************************************************************)
C4_MergeValueExact ==
  AfterShift =>
    \A x \in Merges(actions) :
      /\ At(prev, actions[x].from) # 0
      /\ Joined(x) = At(prev, actions[x].from)
      /\ actions[x].value = At(prev, actions[x].from) + 1

(***************************************************************************)
(* C4 (amended): every Merge action's value is one more than the rank at   *)
(* its `from` cell before the shift, except that two tiles of rank 255     *)
(* merge to value 255; the tile it joins has that same non-zero rank.      *)
(***************************************************************************)
C4_MergeValueSaturating ==
  AfterShift =>
    \A x \in Merges(actions) :
      /\ At(prev, actions[x].from) # 0
      /\ Joined(x) = At(prev, actions[x].from)
      /\ actions[x].value =
           IF At(prev, actions[x].from) = U8Max THEN U8Max
           ELSE At(prev, actions[x].from) + 1

\* a Merge that joined a tile which an earlier Move of the shift had brought
C4_Witness ==
  /\ AfterShift
  /\ \E x \in Merges(actions) :
       /\ At(prev, actions[x].to) # At(prev, actions[x].from)
       /\ actions[x].value = At(prev, actions[x].from) + 1

(***************************************************************************)
(* C5: every cell holds a rank of 0..255 after any sequence of shifts and  *)
(* spawns, and a Merge of two tiles of rank 255 has value 255 and leaves a *)
(* tile of rank 255.                                                       *)
(***************************************************************************)
C5_Saturates ==
  /\ \A xy \in Cells(n) : At(board, xy) \in 0 .. U8Max
  /\ AfterShift =>
       \A x \in Merges(actions) :
         At(prev, actions[x].from) = U8Max =>
           /\ actions[x].value = U8Max
           /\ At(board, actions[x].to) = U8Max

C5_Witness ==
  /\ AfterShift
  /\ \E x \in Merges(actions) :
       /\ At(prev, actions[x].from) = U8Max
       /\ Joined(x) = U8Max
       /\ At(board, actions[x].to) = U8Max

(***************************************************************************)
(* C6: shift returns no action if and only if it left the board as it was. *)
(***************************************************************************)
C6_NoActionIffUnchanged ==
  AfterShift => (actions = <<>> <=> board = prev)

\* a shift of a board with tiles that changes nothing
C6_Witness ==
  /\ AfterShift
  /\ actions = <<>>
  /\ board = prev
  /\ Tiles(n, prev) # {}
  /\ Tiles(n, prev) # Cells(n)

(***************************************************************************)
(* C7: is_shiftable() is false if and only if no cell is empty and every   *)
(* two horizontally or vertically adjacent cells hold unequal ranks.       *)
(***************************************************************************)
C7_ShiftableIff ==
  is_shiftable(n, board) = FALSE <=>
    /\ \A xy \in Cells(n) : At(board, xy) # 0
    /\ \A pq \in AdjacentPairs(n) : At(board, pq[1]) # At(board, pq[2])

C7_Witness ==
  /\ n = MaxN
  /\ ~is_shiftable(n, board)
  /\ \A pq \in AdjacentPairs(n) : At(board, pq[1]) # At(board, pq[2])

(***************************************************************************)
(* C8: when is_shiftable() is false, shift in each of the four directions  *)
(* returns no action and leaves the board as it is.                        *)
(***************************************************************************)
C8_Terminal ==
  /\ ~is_shiftable(n, board) =>
       \A d \in Directions :
         ShiftBoard(n, board, d) = [board |-> board, actions |-> <<>>]
  /\ (AfterShift /\ ~is_shiftable(n, prev)) => (actions = <<>> /\ board = prev)

C8_Witness ==
  /\ AfterShift
  /\ n > 1
  /\ ~is_shiftable(n, prev)
  /\ actions = <<>>
  /\ board = prev

(***************************************************************************)
(* C9 (as stated): when is_shiftable() is true, shift in some direction    *)
(* returns a non-empty action list and changes the board.                  *)
(***************************************************************************)
C9_ShiftableHasMove ==
  is_shiftable(n, board) =>
    \E d \in Directions :
      LET res == ShiftBoard(n, board, d)
      IN res.actions # <<>> /\ res.board # board

(***************************************************************************)
(* C9 (amended): when is_shiftable() is true and the board holds at least  *)
(* one tile, shift in some direction returns a non-empty action list and   *)
(* changes the board; so it does whenever the top-left cell is empty and   *)
(* some other cell is not.                                                 *)
(***************************************************************************)
C9_ShiftableWithTileHasMove ==
  (is_shiftable(n, board) /\ Tiles(n, board) # {}) =>
    \E d \in Directions :
      LET res == ShiftBoard(n, board, d)
      IN res.actions # <<>> /\ res.board # board

\* a shift that changed a board whose top-left cell was empty
C9_Witness ==
  /\ AfterShift
  /\ At(prev, <<0, 0>>) = 0
  /\ Tiles(n, prev) # {}
  /\ is_shiftable(n, prev)
  /\ actions # <<>>
  /\ board # prev

(***************************************************************************)
(* C10: on a board with an empty cell spawn returns Some((rank, (row,      *)
(* col))) with the cell empty before, the rank 1 or 2, the cell holding    *)
(* that rank afterwards and every other cell as before; with one empty     *)
(* cell, it is that cell.                                                  *)
(***************************************************************************)
C10_SpawnFillsOneEmptyCell ==
  (AfterSpawn /\ Tiles(n, prev) # Cells(n)) =>
    /\ spawned.some
    /\ spawned.val[1] \in {1, 2}
    /\ spawned.val[2] \in Cells(n)
    /\ At(prev, spawned.val[2]) = 0
    /\ At(board, spawned.val[2]) = spawned.val[1]
    /\ \A xy \in Cells(n) \ {spawned.val[2]} : At(board, xy) = At(prev, xy)
    /\ \A xy \in Cells(n) :
         Cells(n) \ Tiles(n, prev) = {xy} => spawned.val[2] = xy

\* a spawn into the one empty cell of a board, not on the diagonal
C10_Witness ==
  /\ AfterSpawn
  /\ spawned.some
  /\ Cardinality(Tiles(n, prev)) = n * n - 1
  /\ spawned.val[2][1] # spawned.val[2][2]
  /\ Tiles(n, board) = Cells(n)

(***************************************************************************)
(* C11: spawn returns None if and only if the board has no empty cell, and *)
(* then leaves the board as it was; from the empty board each of the first *)
(* N * N spawns succeeds and adds exactly one tile, and the next returns   *)
(* None.                                                                   *)
(***************************************************************************)
C11_SpawnNoneIffFull ==
  AfterSpawn =>
    LET made == FillCalls(n) - budget
    IN /\ spawned = None <=> Tiles(n, prev) = Cells(n)
       /\ spawned = None => board = prev
       /\ made <= n * n =>
            /\ spawned.some
            /\ Cardinality(Tiles(n, prev)) = made - 1
            /\ Cardinality(Tiles(n, board)) = made
       /\ made = n * n + 1 => (spawned = None /\ Tiles(n, board) = Cells(n))

\* the spawn after the N * N spawns that filled the board
C11_Witness ==
  /\ AfterSpawn
  /\ n = MaxN
  /\ budget = 0
  /\ spawned = None
  /\ board = prev
  /\ Tiles(n, board) = Cells(n)

(***************************************************************************)
(* C12: for N >= 2 the board new() returns has exactly two non-zero cells, *)
(* each of rank 1 or 2, and every other cell empty; the board empty()      *)
(* returns has N * N cells, all 0.                                         *)
(***************************************************************************)
C12_NewHasTwoTiles ==
  /\ op = "new" =>
       /\ n >= 2
       /\ Cardinality(Tiles(n, board)) = 2
       /\ \A xy \in Cells(n) : At(board, xy) \in {0, 1, 2}
  /\ DOMAIN Empty(n) = Idx(n)
  /\ \A r \in Idx(n) : DOMAIN Empty(n)[r] = Idx(n)
  /\ \A xy \in Cells(n) : At(Empty(n), xy) = 0

\* a board of new() with a tile of rank 1 and a tile of rank 2
C12_Witness ==
  /\ op = "new"
  /\ n = SIZE
  /\ \E xy \in Cells(n) : At(board, xy) = 1
  /\ \E xy \in Cells(n) : At(board, xy) = 2

(***************************************************************************)
(* C19: in the game loop the spawn that follows a shift that returned      *)
(* actions finds an empty cell: it returns Some, and the move leaves one   *)
(* tile more than the shift did.                                           *)
(***************************************************************************)
C19_SpawnAfterMoveSucceeds ==
  op = "move" =>
    LET mid == ShiftBoard(n, prev, dir).board
    IN /\ actions # <<>>
       /\ Tiles(n, mid) # Cells(n)
       /\ spawned.some
       /\ At(mid, spawned.val[2]) = 0
       /\ Cardinality(Tiles(n, board)) = Cardinality(Tiles(n, mid)) + 1

\* a move on a full board: the shift merged, the spawn refilled
C19_Witness ==
  /\ op = "move"
  /\ Tiles(n, prev) = Cells(n)
  /\ Cardinality(Merges(actions)) = 2
  /\ spawned.some

(***************************************************************************)
(* C20: every board the game loop reaches from new() holds at least two    *)
(* tiles, and is_shiftable() is true on it if and only if shift in some    *)
(* direction would return a non-empty action list.                         *)
(***************************************************************************)
C20_GameNeverStuck ==
  /\ Cardinality(Tiles(n, board)) >= 2
  /\ is_shiftable(n, board) <=>
       \E d \in Directions : ShiftBoard(n, board, d).actions # <<>>

\* the game loop reached a board on which the game is over
C20_Witness ==
  /\ op = "move"
  /\ ~is_shiftable(n, board)
  /\ \A d \in Directions : ShiftBoard(n, board, d).actions = <<>>

(***************************************************************************)
(* C13: the actions of a shift come line by line in increasing line index  *)
(* (row index for Left and Right, column index for Up and Down), and those *)
(* of one line have `from` cells ever farther from the edge the direction  *)
(* points to; on the boards of tests::shift they are the lists the tests   *)
(* expect, in that order.                                                  *)
(***************************************************************************)
LineOfCell(d, xy) == IF d \in {"Left", "Right"} THEN xy[1] ELSE xy[2]

\* how far cell xy is from the edge direction d points to
Distance(m, d, xy) ==
  CASE d = "Left"  -> xy[2]
    [] d = "Right" -> m - 1 - xy[2]
    [] d = "Up"    -> xy[1]
    [] d = "Down"  -> m - 1 - xy[1]

C13_ActionOrder ==
  AfterShift =>
    /\ \A x, y \in 1 .. Len(actions) :
         x < y =>
           /\ LineOfCell(dir, actions[x].from) <= LineOfCell(dir, actions[y].from)
           /\ LineOfCell(dir, actions[x].from) = LineOfCell(dir, actions[y].from) =>
                Distance(n, dir, actions[x].from) < Distance(n, dir, actions[y].from)
    /\ \A t \in ShiftTests : (n = SIZE /\ prev = t[1] /\ dir = t[2]) => actions = t[3]

\* the Down case of tests::shift: eight actions over four columns
C13_Witness ==
  /\ AfterShift
  /\ prev = ShiftTestDown
  /\ dir = "Down"
  /\ actions = ShiftTestDownActions

(***************************************************************************)
(* C14: shift(Left) is shift_nums_left on each row; shift(Right) is        *)
(* shift(Left) of the column-mirrored board with the board and every       *)
(* action coordinate mirrored back; shift(Up) is shift(Left) of the        *)
(* transposed board with board and coordinates transposed back;            *)
(* shift(Down) is shift(Up) of the row-mirrored board with board and       *)
(* coordinates row-mirrored back.  Kinds, values and order are the same.   *)
(***************************************************************************)
MirrorCols(m, b) == [r \in Idx(m) |-> [c \in Idx(m) |-> b[r][m - 1 - c]]]
MirrorRows(m, b) == [r \in Idx(m) |-> [c \in Idx(m) |-> b[m - 1 - r][c]]]
Transpose(m, b) == [r \in Idx(m) |-> [c \in Idx(m) |-> b[c][r]]]

WithCoords(as, F(_)) ==
  [x \in 1 .. Len(as) |->
     TileAction(as[x].kind, as[x].value, F(as[x].from), F(as[x].to))]

RECURSIVE RowActions(_, _, _)
RowActions(m, b, r) ==
  IF r >= m THEN <<>>
  ELSE shift_nums_left(m, b[r], r).actions \o RowActions(m, b, r + 1)

C14_OneCompaction ==
  AfterShift =>
    CASE dir = "Left" ->
           /\ \A r \in Idx(n) : board[r] = shift_nums_left(n, prev[r], r).row
           /\ actions = RowActions(n, prev, 0)
      [] dir = "Right" ->
           LET l == ShiftBoard(n, MirrorCols(n, prev), "Left")
           IN /\ board = MirrorCols(n, l.board)
              /\ actions = WithCoords(l.actions, LAMBDA xy : <<xy[1], n - 1 - xy[2]>>)
      [] dir = "Up" ->
           LET l == ShiftBoard(n, Transpose(n, prev), "Left")
           IN /\ board = Transpose(n, l.board)
              /\ actions = WithCoords(l.actions, LAMBDA xy : <<xy[2], xy[1]>>)
      [] dir = "Down" ->
           LET u == ShiftBoard(n, MirrorRows(n, prev), "Up")
           IN /\ board = MirrorRows(n, u.board)
              /\ actions = WithCoords(u.actions, LAMBDA xy : <<n - 1 - xy[1], xy[2]>>)

\* a Down shift with a Move and a Merge on a board that is not symmetric
C14_Witness ==
  /\ AfterShift
  /\ dir = "Down"
  /\ prev # MirrorRows(n, prev)
  /\ prev # Transpose(n, prev)
  /\ \E x, y \in 1 .. Len(actions) :
       actions[x].kind = "Move" /\ actions[y].kind = "Merge"

(***************************************************************************)
(* C15 (as stated): after a shift, a second shift in the same direction    *)
(* returns no actions and leaves the board unchanged.                      *)
(***************************************************************************)
C15_SecondShiftNoOp ==
  AfterShift =>
    ShiftBoard(n, board, dir) = [board |-> board, actions |-> <<>>]

(***************************************************************************)
(* C15 (amended): a shift leaves every line packed against the edge, and a *)
(* second shift in the same direction returns no actions if and only if no *)
(* line then holds two equal tiles next to each other, which is so         *)
(* whenever the first shift merged nothing; when it returns no actions it  *)
(* leaves the board unchanged.                                             *)
(***************************************************************************)
Packed(m, line) == \A p \in 0 .. (m - 2) : line[p] = 0 => line[p + 1] = 0

EqualNeighbours(m, line) ==
  \E p \in 0 .. (m - 2) : line[p] # 0 /\ line[p] = line[p + 1]

C15_SecondShiftOnlyMerges ==
  AfterShift =>
    LET second == ShiftBoard(n, board, dir)
    IN /\ \A k \in Idx(n) : Packed(n, LineOf(n, board, dir, k))
       /\ second.actions = <<>> <=>
            \A k \in Idx(n) : ~EqualNeighbours(n, LineOf(n, board, dir, k))
       /\ second.actions = <<>> => second.board = board
       /\ Merges(actions) = {} => second.actions = <<>>

\* a shift that moved and merged tiles after which the second shift does nothing
C15_Witness ==
  /\ AfterShift
  /\ Merges(actions) # {}
  /\ \E x \in 1 .. Len(actions) : actions[x].kind = "Move"
  /\ ShiftBoard(n, board, dir) = [board |-> board, actions |-> <<>>]

(***************************************************************************)
(* C16: replaying the actions of a shift in order on the board before it   *)
(* (clear `from`, set `to` to the action's value) gives the board after    *)
(* it; a Move's value is the rank at its `from` cell before the shift, and *)
(* a cell that is the `from` or `to` of no action is unchanged.            *)
(***************************************************************************)
RECURSIVE Replay(_, _, _)
Replay(b, as, k) ==
  IF k > Len(as) THEN b
  ELSE Replay(Set(Set(b, as[k].from[1], as[k].from[2], 0),
                  as[k].to[1], as[k].to[2], as[k].value),
              as, k + 1)

C16_ReplayReproduces ==
  AfterShift =>
    /\ Replay(prev, actions, 1) = board
    /\ \A x \in 1 .. Len(actions) :
         actions[x].kind = "Move" => actions[x].value = At(prev, actions[x].from)
    /\ \A xy \in Cells(n) :
         (\A x \in 1 .. Len(actions) : actions[x].from # xy /\ actions[x].to # xy)
           => At(board, xy) = At(prev, xy)

\* a replay in which one cell is written by a Move and then by a Merge
C16_Witness ==
  /\ AfterShift
  /\ \E x, y \in 1 .. Len(actions) :
       /\ x < y
       /\ actions[x].kind = "Move"
       /\ actions[y].kind = "Merge"
       /\ actions[x].to = actions[y].to
  /\ Replay(prev, actions, 1) = board

(***************************************************************************)
(* C17: for N >= 2 and every direction, the shift of the all-empty board   *)
(* returns no actions and leaves the board all-empty.                      *)
(***************************************************************************)
C17_ShiftEmpty ==
  (AfterShift /\ n >= 2 /\ Tiles(n, prev) = {}) =>
    /\ actions = <<>>
    /\ Tiles(n, board) = {}

C17_Witness ==
  /\ AfterShift
  /\ n = SIZE
  /\ dir = "Down"
  /\ Tiles(n, prev) = {}
  /\ Tiles(n, board) = {}
  /\ actions = <<>>

(***************************************************************************)
(* C18: every action of shift(d) has `to` different from `from`, in the    *)
(* same row (Left, Right) or column (Up, Down) and strictly nearer the     *)
(* edge d points to, so direction_from_position(from, to) returns d and    *)
(* never reaches its unreachable!() branch.                                *)
(***************************************************************************)
C18_ActionsPointAlongDirection ==
  AfterShift =>
    \A x \in 1 .. Len(actions) :
      LET from == actions[x].from
          to == actions[x].to
      IN /\ from # to
         /\ from \in Cells(n) /\ to \in Cells(n)
         /\ CASE dir = "Left"  -> to[1] = from[1] /\ to[2] < from[2]
              [] dir = "Right" -> to[1] = from[1] /\ to[2] > from[2]
              [] dir = "Up"    -> to[2] = from[2] /\ to[1] < from[1]
              [] dir = "Down"  -> to[2] = from[2] /\ to[1] > from[1]
         /\ direction_from_position(from, to) = dir

\* a Right shift whose actions direction_from_position maps to Right
C18_Witness ==
  /\ AfterShift
  /\ dir = "Right"
  /\ Len(actions) >= 2
  /\ \A x \in 1 .. Len(actions) :
       direction_from_position(actions[x].from, actions[x].to) = "Right"

C22_AnimationSettles ==
  animating(animated) ~> player_can_interact(state, animated)

(***************************************************************************)
(* What the application does instead: no system removes an Animation       *)
(* component (animate_tiles only moves the Transform), and the systems     *)
(* that replace the tiles (redraw_board, restart) run only under           *)
(* player_can_interact or after GameOver.  Once a tile is animated, the    *)
(* same tiles stay animated, the state stays Playing, no game-over check   *)
(* is made and the board never changes again.                              *)
(***************************************************************************)
C22_AnimationNeverEnds ==
  [][animating(animated)
       => /\ animated' = animated
          /\ board' = board
          /\ state' = "Playing"
          /\ next_state' = "Unchanged"
          /\ ~player_can_interact(state', animated')]_vars

\* a direction key pressed in a frame after an accepted move: the tiles of
\* that move are still animated and the key was not applied
C22_Witness ==
  /\ Cardinality(animated) >= 2
  /\ key \in Directions
  /\ key # dir
  /\ op = "idle"
  /\ board = prev

=============================================================================
